---------------------------- MODULE Spec2Model ----------------------------
(***************************************************************************)
(* One-way periodic folder synchronisation (sync_folders.py).              *)
(*                                                                         *)
(* The state is the two directory trees, the position of the driver loop   *)
(* of main(), the position of the os.walk generator of the running pass,   *)
(* the global change counter and what the process last logged.  Each       *)
(* action is one iteration step of a pass or one step of the driver.       *)
(***************************************************************************)
EXTENDS Integers, Sequences, FiniteSets, TLC

(***************************************************************************)
(* Bounds of the model.                                                    *)
(***************************************************************************)
MaxDepth == 3        \* longest relative path of the path universe
MaxCycles == 2       \* cycles the driver loop is followed for
MaxFaults == 1       \* environment failures (an item operation that raises)
MaxExternal == 1     \* deletions made in the source tree by another process

Names == {"a", "b"}
Contents == {1, 2}
SourceContents == {1}
SourceMtimes == {1}
ReplicaMtimes == {2}
Intervals == {-1, 1}

(***************************************************************************)
(* Relative paths and nodes of a tree.                                     *)
(***************************************************************************)
Paths == UNION {[1..n -> Names] : n \in 0..MaxDepth}
Root == << >>
InitPaths == {<<"a">>, <<"b">>, <<"a", "a">>}

Absent == [k |-> "absent", c |-> 0, m |-> 0]
Dir == [k |-> "dir", c |-> 0, m |-> 0]
File(c, m) == [k |-> "file", c |-> c, m |-> m]
Nodes == {Absent, Dir} \cup {File(c, m) : c \in Contents, m \in SourceMtimes \cup ReplicaMtimes}

Parent(p) == SubSeq(p, 1, Len(p) - 1)
IsPrefix(p, q) == Len(p) <= Len(q) /\ SubSeq(q, 1, Len(p)) = p
Prefixes(p) == {SubSeq(p, 1, n) : n \in 0..Len(p)}

\* a lookup outside the universe finds nothing
Node(t, p) == IF p \in Paths THEN t[p] ELSE Absent

\* os.path.exists
Exists(t, p) == Node(t, p).k # "absent"

\* a tree of a real filesystem: every entry lies in a directory
ValidTree(t) == \A p \in Paths \ {Root} : Exists(t, p) => t[Parent(p)].k = "dir"

TreesOver(mtimes) ==
    LET Small == {Absent, Dir} \cup {File(c, m) : c \in Contents, m \in mtimes}
        Ext(f) == [p \in Paths |-> IF p = Root THEN Dir
                                   ELSE IF p \in InitPaths THEN f[p] ELSE Absent]
    IN {t \in {Ext(f) : f \in [InitPaths -> Small]} : ValidTree(t)}

\* the source trees a run starts from: no operation compares the contents of
\* two source files, one content covers them
SourceTrees ==
    {t \in TreesOver(SourceMtimes) : \A p \in Paths : t[p].k = "file" => t[p].c \in SourceContents}

\* os.scandir as os.walk uses it: the names of a directory, split by kind
ScanDirs(t, d) == {n \in Names : Node(t, Append(d, n)).k = "dir"}
ScanFiles(t, d) == {n \in Names : Node(t, Append(d, n)).k = "file"}
Orders(S) == {s \in [1..Cardinality(S) -> S] : \A i, j \in 1..Cardinality(S) : s[i] = s[j] => i = j}


(***************************************************************************)
(* Filesystem operations of the standard library, on a tree.               *)
(***************************************************************************)
\* os.makedirs(p): creates p and its missing ancestors; raises when p exists
\* or when an ancestor is a regular file
CanMakedirs(t, p) == /\ p \in Paths
                     /\ ~Exists(t, p)
                     /\ \A q \in Prefixes(p) : Node(t, q).k # "file"
MakedirsLeafOnly(t, p) == [t EXCEPT ![p] = Dir]
Makedirs(t, p) == [q \in Paths |-> IF q \in Prefixes(p) /\ t[q].k = "absent" THEN Dir ELSE t[q]]

\* shutil.copy2(src, dst): a dst that is a directory receives the file
\* under the base name of src
Copy2Target(t, p) == IF Node(t, p).k = "dir" THEN Append(p, p[Len(p)]) ELSE p
CanCopy2(s, t, p) == LET d == Copy2Target(t, p)
                     IN /\ Node(s, p).k = "file"
                        /\ d \in Paths
                        /\ Node(t, Parent(d)).k = "dir"
                        /\ Node(t, d).k # "dir"
Copy2(s, t, p) == [t EXCEPT ![Copy2Target(t, p)] = s[p]]

\* os.remove(p): p must be a regular file
CanRemove(t, p) == Node(t, p).k = "file"
\* a removal that returns without removing
RemoveNothing(t, p) == t
Remove(t, p) == [t EXCEPT ![p] = Absent]

\* shutil.rmtree(p): p must be a directory; the whole subtree goes
CanRmtree(t, p) == Node(t, p).k = "dir"
Rmtree(t, p) == [q \in Paths |-> IF IsPrefix(p, q) THEN Absent ELSE t[q]]

(***************************************************************************)
(* calculate_sha256: the digest of the bytes read, or None (NoDigest) when *)
(* the file cannot be opened or read.  Distinct contents have distinct     *)
(* digests.                                                                *)
(***************************************************************************)
NoDigest == 0
Sha256(c) == 100 + c
calculate_sha256(t, p, readError) ==
    IF Node(t, p).k = "file" /\ ~readError THEN Sha256(Node(t, p).c) ELSE NoDigest

\* the condition of line 93; the digests are computed only when the replica
\* path exists
NeedsCopy(s, t, p, srcErr, repErr) ==
    \/ ~Exists(t, p)
    \/ calculate_sha256(s, p, srcErr) # calculate_sha256(t, p, repErr)

\* count += 1 is the first statement of each try block
CountAfter(n, res) == IF res \in {"ok", "fail"} THEN n + 1 ELSE n

\* lines 132 and 143: a replica entry goes when the source has nothing at
\* the same relative path
ShouldRemoveBySourceDir(s, p) == IF p = Root THEN ~Exists(s, p) ELSE ~Exists(s, Parent(p))
ShouldRemoveUnlessFile(s, p) == Node(s, p).k # "file"
ShouldRemove(s, p) == ~Exists(s, p)

\* the handlers of lines 82-84, 99-101, 138-140 and 149-151 are inside the
\* loop bodies: whatever the outcome of an item, the walk goes on from where
\* it was
ResumeWalkAbort(stk, res) == IF res = "fail" THEN << >> ELSE stk
ResumeWalk(stk, res) == stk

\* the messages of the terminating paths
InterruptMsg == "Program interrupted by user"
UnexpectedMsg == "An unexpected error occurred"
FatalAddMsg == "Unknown error adding files or directories"
FatalSubMsg == "Unknown error removing files or directories"

\* sys.exit statuses
ExitInterruptClean == 0
ExitInterrupt == 1
ExitFatal == 1
ExitUnexpected == 1

(***************************************************************************)
(* State.                                                                  *)
(***************************************************************************)
VARIABLES
    src,        \* the source tree
    rep,        \* the replica tree
    pc,         \* position in main: prompt, reprompt, validate, then the driver
                \* loop: idle, add, sub, report, sleep, terminated
    stack,      \* the os.walk generator of the running pass, top first
    count,      \* the global change counter
    interval,   \* args.interval
    exitCode,   \* exit status of the process, -1 while it runs
    lastLog,    \* the last message given to response_message
    noChange,   \* "No files changed" was logged by the last report
    cycle,      \* iterations of the driver loop started
    faults,     \* environment failures so far
    externals,  \* external deletions in the source so far
    log,        \* item evaluations of the current cycle, in order
    src0,       \* the source tree when the current cycle started
    rep0,       \* the replica tree when the current cycle started
    answer,     \* yes_no, the last answer read at the prompt
    logFile     \* args.log_file: where it lies, and whether it can be opened

vars == <<src, rep, pc, stack, count, interval, exitCode, lastLog, noChange,
          cycle, faults, externals, log, src0, rep0, answer, logFile>>

\* lines 231-233: what the operator can type; NoAnswer before the first input
Answers == {"y", "n", "other"}
NoAnswer == "none"
\* lines 193 and 200-212: the place of the log file, and whether it opens
LogFiles == [at : {"in_source", "in_replica", "outside"}, writable : BOOLEAN]

Msg(m, sev) == [msg |-> m, sev |-> sev]
Todo(p) == [p |-> p, scanned |-> FALSE, files |-> {}]
Yielded(p, fs) == [p |-> p, scanned |-> TRUE, files |-> fs]
Entry(op, p, res, derr) == [op |-> op, p |-> p, res |-> res, derr |-> derr,
                            s |-> Node(src, p), r |-> Node(rep, p)]
Result(ok) == IF ok THEN "ok" ELSE "fail"
FaultChoices(n) == {fs \in [1..n -> BOOLEAN] : Cardinality({i \in 1..n : fs[i]}) <= MaxFaults - faults}
Spent(fs) == Cardinality({i \in DOMAIN fs : fs[i]})
\* the failures of one evaluation of line 93 and of its copy: the read of
\* the source, the read of the replica, the copy; one failure of the
\* environment can hit one read or both
ReadCopyCost(fs) == (IF fs[1] \/ fs[2] THEN 1 ELSE 0) + (IF fs[3] THEN 1 ELSE 0)
ReadCopyFaults == {fs \in [1..3 -> BOOLEAN] : ReadCopyCost(fs) <= MaxFaults - faults}

Init ==
    /\ src \in SourceTrees
    /\ rep \in TreesOver(ReplicaMtimes)
    /\ pc = "idle"
    /\ stack = << >>
    /\ count = 0
    /\ interval \in Intervals
    /\ exitCode = -1
    /\ lastLog = Msg("none", "info")
    /\ noChange = FALSE
    /\ cycle = 0
    /\ faults = 0
    /\ externals = 0
    /\ log = << >>
    /\ src0 = src
    /\ rep0 = rep
    /\ answer = "y"
    /\ logFile = [at |-> "outside", writable |-> TRUE]

(***************************************************************************)
(* main(): the driver loop.                                                *)
(***************************************************************************)
StartCycleNoReset ==
    /\ pc \in {"idle", "sleep"}
    /\ cycle < MaxCycles
    /\ pc' = "add"
    /\ cycle' = cycle + 1
    /\ stack' = <<Todo(Root)>>
    /\ lastLog' = Msg("Starting synchronization process...", "info")
    /\ log' = << >>
    /\ src0' = src
    /\ rep0' = rep
    /\ UNCHANGED <<answer, logFile, src, rep, count, interval, exitCode, noChange, faults, externals>>

\* lines 246-249: a loop iteration starts, on entry or after the sleep
StartCycle ==
    /\ pc \in {"idle", "sleep"}
    /\ cycle < MaxCycles
    /\ pc' = "add"
    /\ count' = 0
    /\ cycle' = cycle + 1
    /\ stack' = <<Todo(Root)>>
    /\ lastLog' = Msg("Starting synchronization process...", "info")
    /\ log' = << >>
    /\ src0' = src
    /\ rep0' = rep
    /\ UNCHANGED <<answer, logFile, src, rep, interval, exitCode, noChange, faults, externals>>

\* lines 250-255 and the handler of lines 260-263: time.sleep raises
\* ValueError for a negative interval
Report ==
    /\ pc = "report"
    /\ noChange' = (count = 0)
    /\ IF interval < 0
       THEN /\ pc' = "terminated"
            /\ exitCode' = ExitUnexpected
            /\ lastLog' = Msg(UnexpectedMsg, "error")
       ELSE /\ pc' = "sleep"
            /\ exitCode' = exitCode
            /\ lastLog' = Msg("Synchronization process completed", "info")
    /\ UNCHANGED <<answer, logFile, src, rep, stack, count, interval, cycle, faults, externals, log, src0, rep0>>

\* lines 256-259: KeyboardInterrupt is not an Exception, so no handler of a
\* pass catches it
Interrupt ==
    /\ pc \in {"add", "sub", "report", "sleep"}
    /\ pc' = "terminated"
    /\ exitCode' = ExitInterrupt
    /\ lastLog' = Msg(InterruptMsg, "info")
    /\ UNCHANGED <<answer, logFile, src, rep, stack, count, interval, noChange, cycle, faults, externals, log, src0, rep0>>

(***************************************************************************)
(* add_files_and_directories: os.walk(source), top-down.  The top of the   *)
(* stack is the directory being iterated (scanned, with the files still to *)
(* be handled) or the next directory to scan.                              *)
(***************************************************************************)
Top == Head(stack)
Rest == Tail(stack)
WithoutFile(f) == Yielded(Top.p, Top.files \ {f})
Pending(order, d) == [i \in 1..Len(order) |-> Todo(Append(d, order[i]))]

\* os.walk ignores the error of scandir: a directory that is not there, or
\* is not a directory, yields nothing
AddScanError ==
    /\ pc = "add"
    /\ stack # << >>
    /\ ~Top.scanned
    /\ Node(src, Top.p).k # "dir"
    /\ stack' = Rest
    /\ UNCHANGED <<answer, logFile, src, rep, pc, count, interval, exitCode, lastLog, noChange,
                   cycle, faults, externals, log, src0, rep0>>

\* lines 69-84: the next directory of the walk, and its replica counterpart
AddVisitDir ==
    /\ pc = "add"
    /\ stack # << >>
    /\ ~Top.scanned
    /\ Node(src, Top.p).k = "dir"
    /\ LET d == Top.p
           files == ScanFiles(src, d)
           attempt == ~Exists(rep, d)
       IN \E order \in Orders(ScanDirs(src, d)), fs \in FaultChoices(1) :
            LET ok == CanMakedirs(rep, d) /\ ~fs[1]
                res == IF attempt THEN Result(ok) ELSE "skip"
            IN /\ fs[1] => attempt
               /\ rep' = IF attempt /\ ok THEN Makedirs(rep, d) ELSE rep
               /\ count' = CountAfter(count, res)
               /\ log' = Append(log, Entry("mkdir", d, res, FALSE))
               /\ lastLog' = IF ~attempt THEN lastLog
                             ELSE IF ok THEN Msg("Directory created", "info")
                             ELSE Msg("Error creating", "warning")
               /\ faults' = faults + Spent(fs)
               /\ stack' = ResumeWalk((IF files = {} THEN << >> ELSE <<Yielded(d, files)>>)
                                       \o Pending(order, d) \o Rest, res)
    /\ UNCHANGED <<answer, logFile, src, pc, interval, exitCode, noChange, cycle, externals, src0, rep0>>

\* the copy of line 96 with its two arguments exchanged
AddFileSwapped ==
    /\ pc = "add"
    /\ stack # << >>
    /\ Top.scanned
    /\ \E f \in Top.files, fs \in ReadCopyFaults :
         LET p == Append(Top.p, f)
             need == NeedsCopy(src, rep, p, fs[1], fs[2])
             ok == CanCopy2(rep, src, p) /\ ~fs[3]
             res == IF need THEN Result(ok) ELSE "skip"
             left == WithoutFile(f)
             derr == /\ Exists(rep, p)
                     /\ NoDigest \in {calculate_sha256(src, p, fs[1]), calculate_sha256(rep, p, fs[2])}
         IN /\ (fs[1] \/ fs[2]) => Exists(rep, p)
            /\ fs[3] => need
            /\ src' = IF need /\ ok THEN Copy2(rep, src, p) ELSE src
            /\ count' = CountAfter(count, res)
            /\ log' = Append(log, Entry("copy", p, res, derr))
            /\ lastLog' = IF need /\ ok THEN Msg("File copied", "info")
                          ELSE IF need THEN Msg("Error copying", "warning")
                          ELSE IF derr
                               THEN Msg("Error calculating SHA-256", "error")
                          ELSE lastLog
            /\ faults' = faults + ReadCopyCost(fs)
            /\ stack' = ResumeWalk(IF left.files = {} THEN Rest ELSE <<left>> \o Rest, res)
    /\ UNCHANGED <<answer, logFile, rep, pc, interval, exitCode, noChange, cycle, externals, src0, rep0>>

\* lines 87-101: one file of the directory being iterated
AddFile ==
    /\ pc = "add"
    /\ stack # << >>
    /\ Top.scanned
    /\ \E f \in Top.files, fs \in ReadCopyFaults :
         LET p == Append(Top.p, f)
             need == NeedsCopy(src, rep, p, fs[1], fs[2])
             ok == CanCopy2(src, rep, p) /\ ~fs[3]
             res == IF need THEN Result(ok) ELSE "skip"
             left == WithoutFile(f)
             derr == /\ Exists(rep, p)
                     /\ NoDigest \in {calculate_sha256(src, p, fs[1]), calculate_sha256(rep, p, fs[2])}
         IN /\ (fs[1] \/ fs[2]) => Exists(rep, p)
            /\ fs[3] => need
            /\ rep' = IF need /\ ok THEN Copy2(src, rep, p) ELSE rep
            /\ count' = CountAfter(count, res)
            /\ log' = Append(log, Entry("copy", p, res, derr))
            /\ lastLog' = IF need /\ ok THEN Msg("File copied", "info")
                          ELSE IF need THEN Msg("Error copying", "warning")
                          ELSE IF derr
                               THEN Msg("Error calculating SHA-256", "error")
                          ELSE lastLog
            /\ faults' = faults + ReadCopyCost(fs)
            /\ stack' = ResumeWalk(IF left.files = {} THEN Rest ELSE <<left>> \o Rest, res)
    /\ UNCHANGED <<answer, logFile, src, pc, interval, exitCode, noChange, cycle, externals, src0, rep0>>

\* line 54 returns, line 55 starts the walk of the replica
AddDone ==
    /\ pc = "add"
    /\ stack = << >>
    /\ pc' = "sub"
    /\ stack' = <<Todo(Root)>>
    /\ UNCHANGED <<answer, logFile, src, rep, count, interval, exitCode, lastLog, noChange,
                   cycle, faults, externals, log, src0, rep0>>

(***************************************************************************)
(* remove_files_and_directories: os.walk(replica, topdown=False).  A       *)
(* directory is scanned, then its subdirectories are walked, then it is    *)
(* yielded with the lists of its scan.                                     *)
(***************************************************************************)
SubScanTopDown ==
    /\ pc = "sub"
    /\ stack # << >>
    /\ ~Top.scanned
    /\ IF Node(rep, Top.p).k # "dir"
       THEN stack' = Rest
       ELSE \E order \in Orders(ScanDirs(rep, Top.p)) :
              stack' = <<Yielded(Top.p, ScanFiles(rep, Top.p))>> \o Pending(order, Top.p) \o Rest
    /\ UNCHANGED <<answer, logFile, src, rep, pc, count, interval, exitCode, lastLog, noChange,
                   cycle, faults, externals, log, src0, rep0>>

\* the next directory of the walk is scanned; os.walk ignores the error of
\* scandir, so a replica directory that is not there yields nothing
SubScan ==
    /\ pc = "sub"
    /\ stack # << >>
    /\ ~Top.scanned
    /\ IF Node(rep, Top.p).k # "dir"
       THEN stack' = Rest
       ELSE \E order \in Orders(ScanDirs(rep, Top.p)) :
              stack' = Pending(order, Top.p) \o <<Yielded(Top.p, ScanFiles(rep, Top.p))>> \o Rest
    /\ UNCHANGED <<answer, logFile, src, rep, pc, count, interval, exitCode, lastLog, noChange,
                   cycle, faults, externals, log, src0, rep0>>

\* lines 127-140: one file of the yielded replica directory
SubFile ==
    /\ pc = "sub"
    /\ stack # << >>
    /\ Top.scanned
    /\ \E f \in Top.files, fs \in FaultChoices(1) :
         LET p == Append(Top.p, f)
             attempt == ShouldRemove(src, p)
             ok == CanRemove(rep, p) /\ ~fs[1]
             res == IF attempt THEN Result(ok) ELSE "skip"
         IN /\ fs[1] => attempt
            /\ rep' = IF attempt /\ ok THEN Remove(rep, p) ELSE rep
            /\ count' = CountAfter(count, res)
            /\ log' = Append(log, Entry("rmfile", p, res, FALSE))
            /\ lastLog' = IF ~attempt THEN lastLog
                          ELSE IF ok THEN Msg("File removed", "info")
                          ELSE Msg("Error removing", "warning")
            /\ faults' = faults + Spent(fs)
            /\ stack' = ResumeWalk(<<WithoutFile(f)>> \o Rest, res)
    /\ UNCHANGED <<answer, logFile, src, pc, interval, exitCode, noChange, cycle, externals, src0, rep0>>

\* lines 142-151: the yielded replica directory itself, after its files
SubDir ==
    /\ pc = "sub"
    /\ stack # << >>
    /\ Top.scanned
    /\ Top.files = {}
    /\ \E fs \in FaultChoices(1) :
         LET d == Top.p
             attempt == ShouldRemove(src, d)
             ok == CanRmtree(rep, d) /\ ~fs[1]
             res == IF attempt THEN Result(ok) ELSE "skip"
         IN /\ fs[1] => attempt
            /\ rep' = IF attempt /\ ok THEN Rmtree(rep, d) ELSE rep
            /\ count' = CountAfter(count, res)
            /\ log' = Append(log, Entry("rmdir", d, res, FALSE))
            /\ lastLog' = IF ~attempt THEN lastLog
                          ELSE IF ok THEN Msg("Directory removed", "info")
                          ELSE Msg("Error removing", "warning")
            /\ faults' = faults + Spent(fs)
            /\ stack' = ResumeWalk(Rest, res)
    /\ UNCHANGED <<answer, logFile, src, pc, interval, exitCode, noChange, cycle, externals, src0, rep0>>

\* line 55 returns
SubDone ==
    /\ pc = "sub"
    /\ stack = << >>
    /\ pc' = "report"
    /\ UNCHANGED <<answer, logFile, src, rep, stack, count, interval, exitCode, lastLog, noChange,
                   cycle, faults, externals, log, src0, rep0>>

FatalAddNoExit ==
    /\ pc = "add"
    /\ faults < MaxFaults
    /\ faults' = faults + 1
    /\ pc' = "sub"
    /\ stack' = <<Todo(Root)>>
    /\ lastLog' = Msg(FatalAddMsg, "error")
    /\ UNCHANGED <<answer, logFile, src, rep, count, interval, exitCode, noChange, cycle, externals, log, src0, rep0>>

\* lines 103-106 and 153-156: an exception raised in the loop of a pass
\* outside the handlers of the items (by the walk, or by response_message
\* inside a handler) reaches the handler of the pass, which exits
FatalAdd ==
    /\ pc = "add"
    /\ faults < MaxFaults
    /\ faults' = faults + 1
    /\ pc' = "terminated"
    /\ exitCode' = ExitFatal
    /\ lastLog' = Msg(FatalAddMsg, "error")
    /\ UNCHANGED <<answer, logFile, src, rep, stack, count, interval, noChange, cycle, externals, log, src0, rep0>>

FatalSub ==
    /\ pc = "sub"
    /\ faults < MaxFaults
    /\ faults' = faults + 1
    /\ pc' = "terminated"
    /\ exitCode' = ExitFatal
    /\ lastLog' = Msg(FatalSubMsg, "error")
    /\ UNCHANGED <<answer, logFile, src, rep, stack, count, interval, noChange, cycle, externals, log, src0, rep0>>

(***************************************************************************)
(* The environment: another process deletes an entry of the source tree    *)
(* while the driver sleeps.                                                *)
(***************************************************************************)
ExternalDelete ==
    /\ pc = "sleep"
    /\ externals < MaxExternal
    /\ \E p \in Paths :
         /\ Exists(src, p)
         /\ src' = Rmtree(src, p)
    /\ externals' = externals + 1
    /\ UNCHANGED <<answer, logFile, rep, pc, stack, count, interval, exitCode, lastLog, noChange,
                   cycle, faults, log, src0, rep0>>

Next ==
    \/ StartCycle
    \/ AddScanError
    \/ AddVisitDir
    \/ AddFile
    \/ AddDone
    \/ SubScan
    \/ SubFile
    \/ SubDir
    \/ SubDone
    \/ Report
    \/ Interrupt
    \/ FatalAdd
    \/ FatalSub
    \/ ExternalDelete

Spec == Init /\ [][Next]_vars

FilesOf(t) == {p \in Paths : t[p].k = "file"}
DirsOf(t) == {p \in Paths : t[p].k = "dir"}

TypeOK ==
    /\ ValidTree(src)
    /\ ValidTree(rep)
    /\ pc \in {"prompt", "reprompt", "validate", "idle", "add", "sub", "report", "sleep", "terminated"}
    /\ answer \in Answers \cup {NoAnswer}
    /\ logFile \in LogFiles
    /\ count \in 0..(2 * Cardinality(Paths))
    /\ exitCode \in {-1, 0, 1}
    /\ cycle \in 0..MaxCycles
    /\ faults \in 0..MaxFaults
    /\ externals \in 0..MaxExternal
    /\ \A p \in DirsOf(src) \cup DirsOf(rep) : Len(p) < MaxDepth

(***************************************************************************)
(* Vocabulary of the properties.                                           *)
(***************************************************************************)
\* both passes of the current cycle have returned
CycleDone == pc \in {"report", "sleep"}

SameTree(s, t) == /\ FilesOf(s) = FilesOf(t)
                  /\ DirsOf(s) = DirsOf(t)
                  /\ \A p \in FilesOf(s) : s[p].c = t[p].c

Entries(ops) == {i \in DOMAIN log : log[i].op \in ops}
Failed(ops) == {i \in Entries(ops) : log[i].res = "fail"}
AllOps == {"mkdir", "copy", "rmfile", "rmdir"}
\* no operation on an item raised in this cycle, no digest included
NoItemFailure == Failed(AllOps) = {} /\ \A i \in DOMAIN log : ~log[i].derr
Under(p) == {q \in Paths : IsPrefix(p, q)}

(***************************************************************************)
(* C1 - Convergence: when a cycle has completed in which no item           *)
(* operation failed and the source was not modified, the replica has the   *)
(* file paths, the directory paths and the file contents of the source.    *)
(* The code does not do this for a path that is a directory in the source  *)
(* and a regular file in the replica.                                      *)
(***************************************************************************)
C1_Convergence ==
    (CycleDone /\ src = src0 /\ NoItemFailure) => SameTree(src, rep)

(***************************************************************************)
(* C2 - Idempotence: at the end of a second or later cycle, with no        *)
(* external change and no environment failure since the start, the replica *)
(* is what it was when that cycle started and the change counter is zero.  *)
(* The code copies and removes again in every cycle when a path is a file  *)
(* in the source and a directory in the replica.                           *)
(***************************************************************************)
C2_Idempotence ==
    (CycleDone /\ cycle >= 2 /\ externals = 0 /\ faults = 0) => (rep = rep0 /\ count = 0)

(***************************************************************************)
(* C3 - Deletion completeness: when a cycle has completed in which no      *)
(* deletion failed, every path that was in the replica and not in the      *)
(* source when the cycle started is absent from the replica, with          *)
(* everything that was under it.                                           *)
(***************************************************************************)
C3_DeletionComplete ==
    (CycleDone /\ Failed({"rmfile", "rmdir"}) = {}) =>
        \A p \in Paths : (Exists(rep0, p) /\ ~Exists(src0, p)) =>
            \A q \in Under(p) : ~Exists(rep, q)

\* a cycle has removed a replica directory, absent from the source, that
\* held an entry, and a stale file of a directory that stays
C3_Witness ==
    /\ CycleDone
    /\ Failed({"rmfile", "rmdir"}) = {}
    /\ Exists(rep0, <<"a", "a">>) /\ ~Exists(src0, <<"a">>)
    /\ rep0[<<"b">>].k = "file" /\ ~Exists(src0, <<"b">>)
    /\ Exists(src0, Root)
    /\ ~Exists(rep, <<"a">>) /\ ~Exists(rep, <<"b">>)

(***************************************************************************)
(* C4 - Copy decision: every file evaluated by the additive pass is copied *)
(* exactly when the replica has no regular file there or one of another    *)
(* content, whatever the modification times, and right after a successful  *)
(* copy the replica has a regular file of the source's content at that     *)
(* path.  The code reports a successful copy onto a replica directory and  *)
(* leaves the directory where the file should be.                          *)
(***************************************************************************)
C4_CopyDecision ==
    /\ \A i \in Entries({"copy"}) :
         (log[i].res # "skip") <=> (log[i].r.k # "file" \/ log[i].r.c # log[i].s.c)
    /\ (pc = "add" /\ log # << >> /\ log[Len(log)].op = "copy" /\ log[Len(log)].res = "ok") =>
         /\ rep[log[Len(log)].p].k = "file"
         /\ rep[log[Len(log)].p].c = log[Len(log)].s.c

Evaluated(op, p) == \E i \in Entries({op}) : log[i].p = p
Appended == Len(log') = Len(log) + 1
Removals == {"rmfile", "rmdir"}

(***************************************************************************)
(* C5 - Isolated failure containment: an item operation that fails leaves  *)
(* the driver in the pass it is in; when the additive pass has returned    *)
(* every directory and file of the source has been evaluated by it, when   *)
(* the subtractive pass has returned every directory and file of the       *)
(* replica has been evaluated by it, and the process never terminates on   *)
(* the warning of an item.                                                 *)
(***************************************************************************)
C5_Containment ==
    [][ /\ (Appended /\ log'[Len(log')].res = "fail") => (pc' = pc /\ exitCode' = -1)
        /\ pc' \in {"sub", "report", "sleep"} =>
             \A p \in Paths : /\ src0'[p].k = "dir" => Evaluated("mkdir", p)'
                              /\ src0'[p].k = "file" => Evaluated("copy", p)'
        /\ pc' \in {"report", "sleep"} =>
             \A p \in Paths : /\ "dir" \in {rep0'[p].k, rep'[p].k} => Evaluated("rmdir", p)'
                              /\ "file" \in {rep0'[p].k, rep'[p].k} => Evaluated("rmfile", p)'
        /\ pc' = "terminated" => lastLog'.msg \in {InterruptMsg, UnexpectedMsg, FatalAddMsg, FatalSubMsg}
      ]_vars

\* a copy failed, a later file was still copied, the subtractive pass ran
\* and the driver sleeps
C5_Witness ==
    /\ pc = "sleep"
    /\ \E i, j \in Entries({"copy"}) : i < j /\ log[i].res = "fail" /\ log[j].res = "ok"
    /\ Entries(Removals) # {}

(***************************************************************************)
(* C6 - Fatal traversal error: when the source root does not exist at the  *)
(* start of the additive pass, the process terminates with status 1 in     *)
(* that pass: the subtractive pass is not entered and the replica is left  *)
(* as it was.  The code does not do this: os.walk yields nothing for a     *)
(* missing root, and the subtractive pass then empties the replica.        *)
(***************************************************************************)
C6_FatalTraversal ==
    (cycle >= 1 /\ ~Exists(src0, Root)) =>
        /\ pc \in {"add", "terminated"}
        /\ rep = rep0
        /\ pc = "terminated" => exitCode = ExitFatal

(***************************************************************************)
(* C7 - Change counter: throughout a cycle the counter is the number of    *)
(* item operations that have succeeded so far in that cycle.  The code     *)
(* counts the attempts, failed ones included.                              *)
(***************************************************************************)
C7_ChangeCounter ==
    pc \in {"add", "sub", "report", "sleep"} =>
        count = Cardinality({i \in DOMAIN log : log[i].res = "ok"})

(***************************************************************************)
(* C8 - Cycle order: the driver moves idle, additive, subtractive, report, *)
(* sleep and back to additive, or terminates; a cycle starts with the      *)
(* counter at zero; a pass is left only when its walk is exhausted; the    *)
(* replica changes only inside a pass, by creations and copies in the      *)
(* additive one and by removals in the subtractive one, and no additive    *)
(* evaluation follows a subtractive one in a cycle.                        *)
(***************************************************************************)
C8_CycleOrder ==
    [][ /\ pc' # pc => \/ pc' = "terminated"
                       \/ <<pc, pc'>> \in {<<"idle", "add">>, <<"add", "sub">>, <<"sub", "report">>,
                                           <<"report", "sleep">>, <<"sleep", "add">>}
        /\ (pc' = "add" /\ pc # "add") => (count' = 0 /\ log' = << >>)
        /\ (pc' # pc /\ pc \in {"add", "sub"} /\ pc' # "terminated") => stack = << >>
        /\ rep' # rep => (pc \in {"add", "sub"} /\ pc' = pc /\ Appended)
        /\ count' # count => (pc' = "add" \/ (pc' = "sub" /\ pc = "sub"))
        /\ Appended => \/ pc = "add" /\ log'[Len(log')].op \in {"mkdir", "copy"}
                       \/ pc = "sub" /\ log'[Len(log')].op \in Removals
        /\ \A i, j \in DOMAIN log' : (i < j /\ log'[i].op \in Removals) => log'[j].op \in Removals
      ]_vars

\* a second cycle that changed the replica in both passes, after a first
\* one that had changed it too
C8_Witness ==
    /\ pc = "sleep"
    /\ cycle = 2
    /\ \E i \in Entries({"mkdir", "copy"}) : log[i].res = "ok"
    /\ \E i \in Entries(Removals) : log[i].res = "ok"

(***************************************************************************)
(* C9 - User cancellation: a keyboard interrupt is taken in a pass, in the *)
(* report or in the sleep; it terminates the process with an info message  *)
(* and the exit status of the termination by an unexpected error, which    *)
(* logs an error; the trees are left as they were and nothing runs after.  *)
(***************************************************************************)
C9_Cancellation ==
    [][ /\ lastLog'.msg = InterruptMsg =>
             /\ pc \in {"add", "sub", "report", "sleep"}
             /\ pc' = "terminated"
             /\ lastLog'.sev = "info"
             /\ exitCode' = 1
             /\ exitCode' = ExitUnexpected
             /\ UNCHANGED <<src, rep, log, count, cycle>>
        /\ lastLog'.msg = UnexpectedMsg =>
             /\ pc' = "terminated"
             /\ lastLog'.sev = "error"
             /\ exitCode' = 1
        /\ lastLog.msg = InterruptMsg => UNCHANGED vars
      ]_vars

\* interrupted in the middle of the subtractive pass, after a removal
C9_Witness ==
    /\ pc = "terminated"
    /\ lastLog = Msg(InterruptMsg, "info")
    /\ exitCode = 1
    /\ stack # << >>
    /\ \E i \in Entries(Removals) : log[i].res = "ok"

(***************************************************************************)
(* C10 - No retry: the fatal path of a pass terminates the process with    *)
(* status 1 from inside that pass; its message stays the last one (no      *)
(* handler of the driver logs after it), no item is evaluated after it,    *)
(* the driver does not sleep and no cycle starts.                          *)
(***************************************************************************)
C10_NoRetry ==
    [][ /\ (lastLog'.msg \in {FatalAddMsg, FatalSubMsg} /\ lastLog.msg \notin {FatalAddMsg, FatalSubMsg}) =>
             /\ pc' = "terminated"
             /\ exitCode' = 1
             /\ lastLog'.sev = "error"
             /\ (pc = "add" /\ lastLog'.msg = FatalAddMsg) \/ (pc = "sub" /\ lastLog'.msg = FatalSubMsg)
             /\ UNCHANGED <<src, rep, log, count, cycle>>
        /\ lastLog.msg \in {FatalAddMsg, FatalSubMsg} => UNCHANGED vars
        /\ lastLog'.msg = FatalAddMsg => Entries(Removals)' = {}
      ]_vars

\* the additive pass took its fatal path in the middle of its walk, after
\* a copy
C10_Witness ==
    /\ pc = "terminated"
    /\ lastLog = Msg(FatalAddMsg, "error")
    /\ exitCode = 1
    /\ stack # << >>
    /\ \E i \in Entries({"copy"}) : log[i].res = "ok"

(***************************************************************************)
(* C11 - Runs until interrupted: the process terminates only by a keyboard *)
(* interrupt or by the fatal path of a pass.  The code also terminates     *)
(* when time.sleep rejects the interval: a negative interval passes        *)
(* argparse, and the first cycle ends in the handler of lines 260-263      *)
(* instead of the sleep.                                                   *)
(***************************************************************************)
C11_RunsUntilInterrupted ==
    pc = "terminated" => lastLog.msg \in {InterruptMsg, FatalAddMsg, FatalSubMsg}

(***************************************************************************)
(* C12 - Digest failure: whenever the replica file exists and a digest of  *)
(* the pair could not be computed, the additive pass attempts the copy.    *)
(* The code compares None with None when both digests fail, finds them     *)
(* equal and skips the file.                                               *)
(***************************************************************************)
C12_DigestFailure ==
    \A i \in Entries({"copy"}) :
        (log[i].r.k = "file" /\ log[i].derr) => log[i].res # "skip"

(***************************************************************************)
(* C13 - Subtractive ordering: when the subtractive pass evaluates a       *)
(* replica directory, every directory and every file the replica has       *)
(* under it has been evaluated, and nothing evaluated after a directory    *)
(* lies under it: no removal is attempted under a removed directory.       *)
(***************************************************************************)
C13_SubtractiveOrder ==
    [][ /\ (Appended /\ log'[Len(log')].op = "rmdir") =>
             \A q \in Under(log'[Len(log')].p) \ {log'[Len(log')].p} :
                 /\ rep[q].k = "dir" => Evaluated("rmdir", q)
                 /\ rep[q].k = "file" => Evaluated("rmfile", q)
        /\ \A i, j \in Entries(Removals)' :
             (i < j /\ log'[i].op = "rmdir") => ~IsPrefix(log'[i].p, log'[j].p)
      ]_vars

\* a directory and then its parent were evaluated, the parent was removed
\* and the walk went on to the root
C13_Witness ==
    /\ CycleDone
    /\ \E i, j, k \in Entries({"rmdir"}) :
         /\ i < j /\ j < k
         /\ log[i].p = <<"a", "a">>
         /\ log[j].p = <<"a">> /\ log[j].res = "ok"
         /\ log[k].p = Root

(***************************************************************************)
(* C14 - Additive ordering: the additive pass evaluates the replica        *)
(* counterpart of a source directory after that of its parent and before   *)
(* any file of the directory; it creates it exactly when the replica has   *)
(* nothing there, and a successful creation leaves the directory and all   *)
(* its ancestors in the replica.                                           *)
(***************************************************************************)
C14_AdditiveOrder ==
    [][ /\ \A j \in Entries({"copy"})' :
             \E i \in Entries({"mkdir"})' : i < j /\ log'[i].p = Parent(log'[j].p)
        /\ \A j \in Entries({"mkdir"})' :
             /\ log'[j].p # Root =>
                  \E i \in Entries({"mkdir"})' : i < j /\ log'[i].p = Parent(log'[j].p)
             /\ log'[j].res = "skip" <=> log'[j].r.k # "absent"
        /\ (Appended /\ log'[Len(log')].op = "mkdir" /\ log'[Len(log')].res = "ok") =>
             \A q \in Prefixes(log'[Len(log')].p) : rep'[q].k = "dir"
      ]_vars

\* the creation of a directory failed, the creation of its subdirectory
\* then made both, and a file was copied
C14_Witness ==
    /\ pc = "sub"
    /\ \E i, j \in Entries({"mkdir"}) :
         /\ i < j
         /\ log[i].p = <<"a">> /\ log[i].res = "fail"
         /\ log[j].p = <<"a", "a">> /\ log[j].res = "ok"
    /\ rep[<<"a">>].k = "dir"
    /\ \E i \in Entries({"copy"}) : log[i].res = "ok"

(***************************************************************************)
(* C15 - Deletion safety: an entry leaves the replica only in a step of    *)
(* the subtractive pass and only when the source has nothing at its        *)
(* relative path at that moment; a removal is attempted exactly for the    *)
(* evaluated entries without source counterpart, so the replica root stays *)
(* while the source root exists.                                           *)
(***************************************************************************)
C15_DeletionSafety ==
    [][ /\ \A p \in Paths : (Exists(rep, p) /\ ~Exists(rep', p)) =>
                               (pc = "sub" /\ ~Exists(src, p))
        /\ \A i \in Entries(Removals)' : log'[i].res # "skip" <=> log'[i].s.k = "absent"
        /\ (Exists(src, Root) /\ Exists(rep, Root)) => Exists(rep', Root)
      ]_vars

\* a cycle removed a stale entry, kept a file and a directory that have a
\* source counterpart, and kept the root
C15_Witness ==
    /\ CycleDone
    /\ \E i \in Entries(Removals) : log[i].res = "ok"
    /\ \E i \in Entries({"rmfile"}) : log[i].res = "skip" /\ rep[log[i].p].k = "file"
    /\ \E i \in Entries({"rmdir"}) : log[i].res = "skip" /\ log[i].p # Root /\ rep[log[i].p].k = "dir"
    /\ Exists(src, Root) /\ Exists(rep, Root)

(***************************************************************************)
(* C16 - "No files changed" report: when the report of a cycle has been    *)
(* made, the message was logged if and only if no item operation of the    *)
(* cycle succeeded.  The code decides on the counter, which also counts    *)
(* the failed attempts: a cycle whose only operations failed changes       *)
(* nothing and does not log the message.                                   *)
(***************************************************************************)
C16_NoChangeReport ==
    pc = "sleep" => (noChange <=> \A i \in DOMAIN log : log[i].res # "ok")

(***************************************************************************)
(* C17 - One-way frame: the source and the replica are two disjoint trees  *)
(* (the two variables src and rep).  No step of the additive pass, of the  *)
(* subtractive pass or of the cycle driver changes an entry of the source  *)
(* tree: a step that changes it is a deletion by the external actor.       *)
(* Hence the source is what it was at the start of the cycle as long as    *)
(* the external actor has not acted.                                       *)
(***************************************************************************)
C17_OneWayFrame ==
    [][ /\ src' # src => (pc = "sleep" /\ externals' = externals + 1)
        /\ externals' = 0 => (src' = src /\ (pc' \in {"add", "sub", "report"} => src' = src0'))
      ]_vars

\* a second cycle that copied and removed, with no external change
C17_Witness ==
    /\ CycleDone
    /\ cycle = 2
    /\ externals = 0
    /\ \E i \in Entries({"copy"}) : log[i].res = "ok"
    /\ \E i \in Entries({"mkdir"}) : log[i].res = "ok"
    /\ \E i \in Entries(Removals) : log[i].res = "ok"
    /\ src = src0

(***************************************************************************)
(* The unsynchronized environment: another process deletes an entry of the *)
(* source tree at any point of a run, in particular between the scan of a  *)
(* directory by os.walk and the copy of one of its files, between the      *)
(* digests and the copy, or after the copy.  The lists of a directory      *)
(* already scanned are not refreshed.                                      *)
(***************************************************************************)
RaceDelete ==
    /\ pc \in {"add", "sub", "report"}
    /\ externals < MaxExternal
    /\ \E p \in Paths :
         /\ Exists(src, p)
         /\ src' = Rmtree(src, p)
    /\ externals' = externals + 1
    /\ UNCHANGED <<answer, logFile, rep, pc, stack, count, interval, exitCode, lastLog, noChange,
                   cycle, faults, log, src0, rep0>>

\* lines 183-190: the runs with a valid interval that start with the replica
\* root just created by os.makedirs
EmptyTree == [p \in Paths |-> IF p = Root THEN Dir ELSE Absent]

InitRace ==
    /\ Init
    /\ interval > 0
    /\ rep = EmptyTree

NextRace ==
    \/ StartCycle
    \/ AddScanError
    \/ AddVisitDir
    \/ AddFile
    \/ AddDone
    \/ SubScan
    \/ SubFile
    \/ SubDir
    \/ SubDone
    \/ Report
    \/ Interrupt
    \/ FatalAdd
    \/ FatalSub
    \/ RaceDelete

SpecRace == InitRace /\ [][NextRace]_vars

(***************************************************************************)
(* C18 - External modification: the external actor may delete a source     *)
(* entry at any point of a cycle (before, during or after its copy).  A    *)
(* cycle that completes while the source is not changed and in which no    *)
(* deletion fails leaves in the replica no file whose source counterpart   *)
(* is absent: a copy left behind by a deletion during one cycle is gone at *)
(* the end of the next complete cycle.                                     *)
(***************************************************************************)
C18_StaleAtMostOneCycle ==
    (CycleDone /\ src = src0 /\ Failed(Removals) = {}) =>
        \A p \in Paths : rep[p].k = "file" => Exists(src, p)

\* the second cycle started with the copy of a file that was deleted from
\* the source during the first cycle, and has removed it
C18_Witness ==
    /\ CycleDone
    /\ cycle = 2
    /\ externals = 1
    /\ src = src0
    /\ Failed(Removals) = {}
    /\ \E p \in Paths :
         /\ rep0[p].k = "file"
         /\ ~Exists(src0, p)
         /\ Exists(src0, Parent(p))
         /\ ~Exists(rep, p)
         /\ \E i \in Entries({"rmfile"}) : log[i].p = p /\ log[i].res = "ok"

(***************************************************************************)
(* main() before the driver loop: the prompt (lines 231-237) and           *)
(* validate_paths (line 239).  Both run outside the try block of line 244. *)
(***************************************************************************)
ExitDeclined == 0
ExitValidation == 1

\* the source argument names nothing, or a regular file
AbsentTree == [p \in Paths |-> Absent]
RootFileTree == [p \in Paths |-> IF p = Root THEN File(1, 1) ELSE Absent]

\* any answer but "n" goes on
AnswerDefaultYes ==
    /\ pc \in {"prompt", "reprompt"}
    /\ \E a \in Answers :
         /\ answer' = a
         /\ pc' = IF a = "n" THEN "terminated" ELSE "validate"
         /\ exitCode' = IF a = "n" THEN ExitDeclined ELSE exitCode
    /\ UNCHANGED <<logFile, src, rep, stack, count, interval, lastLog, noChange,
                   cycle, faults, externals, log, src0, rep0>>

\* lines 231-237: input() at line 231, and at line 233 while the answer is
\* neither "y" nor "n"
Answer ==
    /\ pc \in {"prompt", "reprompt"}
    /\ \E a \in Answers :
         /\ answer' = a
         /\ pc' = IF a = "y" THEN "validate"
                  ELSE IF a = "n" THEN "terminated"
                  ELSE "reprompt"
         /\ exitCode' = IF a = "n" THEN ExitDeclined ELSE exitCode
    /\ UNCHANGED <<logFile, src, rep, stack, count, interval, lastLog, noChange,
                   cycle, faults, externals, log, src0, rep0>>

\* lines 159-212: the checks in their order; the replica root is created
\* before the place of the log file is looked at.  The messages go to the
\* standard output, logging is configured at line 241 only.
Validate ==
    /\ pc = "validate"
    /\ \E fs \in FaultChoices(1) :
         LET sourceOk == Node(src, Root).k = "dir"
             create == sourceOk /\ Node(rep, Root).k # "dir"
             created == create /\ CanMakedirs(rep, Root) /\ ~fs[1]
             replicaOk == sourceOk /\ (create => created)
             placed == replicaOk /\ logFile.at = "outside"
             passed == placed /\ logFile.writable
         IN /\ fs[1] => create
            /\ rep' = IF created THEN Makedirs(rep, Root) ELSE rep
            /\ pc' = IF passed THEN "idle" ELSE "terminated"
            /\ exitCode' = IF passed THEN exitCode ELSE ExitValidation
            /\ faults' = faults + Spent(fs)
    /\ UNCHANGED <<answer, logFile, src, stack, count, interval, lastLog, noChange,
                   cycle, externals, log, src0, rep0>>

\* the process as it is started: any source argument, a replica argument
\* that names nothing, a regular file or an empty directory
InitStartup ==
    /\ src \in SourceTrees \cup {AbsentTree, RootFileTree}
    /\ rep \in {AbsentTree, RootFileTree, EmptyTree}
    /\ pc = "prompt"
    /\ stack = << >>
    /\ count = 0
    /\ interval \in Intervals
    /\ exitCode = -1
    /\ lastLog = Msg("none", "info")
    /\ noChange = FALSE
    /\ cycle = 0
    /\ faults = 0
    /\ externals = 0
    /\ log = << >>
    /\ src0 = src
    /\ rep0 = rep
    /\ answer = NoAnswer
    /\ logFile \in LogFiles

NextStartup ==
    \/ Answer
    \/ Validate
    \/ StartCycle
    \/ AddScanError
    \/ AddVisitDir
    \/ AddFile
    \/ AddDone
    \/ SubScan
    \/ SubFile
    \/ SubDir
    \/ SubDone
    \/ Report
    \/ Interrupt
    \/ FatalAdd
    \/ FatalSub
    \/ ExternalDelete

SpecStartup == InitStartup /\ [][NextStartup]_vars

\* nothing of a cycle has happened
NothingReconciled == cycle = 0 /\ log = << >> /\ count = 0 /\ stack = << >>

\* the four failures of validate_paths, on the state validate_paths finds
SourceInvalid == Node(src, Root).k # "dir"
ReplicaNotCreatable == Node(rep, Root).k = "file"
LogFileInvalid == logFile.at # "outside" \/ ~logFile.writable

(***************************************************************************)
(* C19 - Startup gating: nothing of a cycle runs before the operator has   *)
(* answered "y" and validate_paths has returned.  The answer "n" exits     *)
(* with status 0 and leaves both trees as they are (the replica root is    *)
(* not created), any other answer leads to the prompt again.  When the     *)
(* source is not a directory, the replica cannot be created, the log file  *)
(* lies inside the source or the replica, or the log file cannot be opened *)
(* for writing, validate_paths exits with status 1 and no cycle has        *)
(* started; on the way it creates at most the replica root.                *)
(***************************************************************************)
C19_StartupGating ==
    [][ /\ pc \in {"prompt", "reprompt"} =>
             /\ answer' = "y" => (pc' = "validate" /\ exitCode' = -1)
             /\ answer' = "n" => (pc' = "terminated" /\ exitCode' = 0)
             /\ answer' \notin {"y", "n"} => (pc' = "reprompt" /\ exitCode' = -1)
             /\ src' = src /\ rep' = rep
             /\ NothingReconciled'
        /\ pc = "validate" =>
             /\ answer = "y"
             /\ (SourceInvalid \/ ReplicaNotCreatable \/ LogFileInvalid \/ faults' # faults)
                   <=> (pc' = "terminated" /\ exitCode' = 1)
             /\ pc' # "terminated" => (pc' = "idle" /\ exitCode' = -1 /\ rep'[Root].k = "dir")
             /\ src' = src
             /\ \A p \in Paths \ {Root} : rep'[p] = rep[p]
             /\ rep'[Root] # rep[Root] => (~SourceInvalid /\ rep[Root].k = "absent" /\ rep'[Root].k = "dir")
             /\ NothingReconciled'
        /\ ~NothingReconciled' =>
             /\ pc \in {"idle", "add", "sub", "report", "sleep"}
             /\ answer = "y"
             /\ exitCode = -1
      ]_vars

\* validate_paths has refused a log file inside the replica, after it
\* created the replica root
C19_Witness ==
    /\ pc = "terminated"
    /\ answer = "y"
    /\ exitCode = 1
    /\ logFile = [at |-> "in_replica", writable |-> TRUE]
    /\ rep0[Root].k = "absent"
    /\ rep[Root].k = "dir"
    /\ NothingReconciled

=============================================================================
